---- MODULE Spec2Model ----
(***************************************************************************)
(* Model of scripts/version-manager.py: the VersionManager of a multi-     *)
(* package workspace (package discovery, dependency order, version         *)
(* consistency, version validation and increment, manifest rewriting).     *)
(*                                                                         *)
(* Text is modelled at character level: a string is a sequence of          *)
(* one-character strings, so that the regular expressions of the source    *)
(* are modelled by what they match, and reading back what was written is   *)
(* not the identity by construction.                                       *)
(***************************************************************************)
EXTENDS Integers, Sequences, FiniteSets, TLC

VARIABLES
    disk,       \* the files: directory -> text of its Cargo.toml, or NoFile
    packages,   \* self.packages: the index, a sequence of PackageInfo records in insertion order
    pc,         \* "ready": a VersionManager is constructed; "exited": the process ended on an exception
    last,       \* the last call made on the manager: its name, arguments and result
    before,     \* the index and the disk as the last update call found them (kept by SpecRerun only)
    faults      \* the number of I/O failures so far

vars == <<disk, packages, pc, last, before, faults>>

(***************************************************************************)
(* Characters and Python's string primitives                               *)
(***************************************************************************)
DigitSeq == <<"0", "1", "2", "3", "4", "5", "6", "7", "8", "9">>

Digits == {DigitSeq[i] : i \in 1..10}

Letters == {"a", "b", "c", "d", "e", "f", "g", "h", "i", "j", "k", "l", "m",
            "n", "o", "p", "q", "r", "s", "t", "u", "v", "w", "x", "y", "z"}

AlNum == Letters \cup Digits

WordChars == AlNum \cup {"_"}

Whitespace == {" ", "\t", "\n"}

Quotes == {"\"", "'"}

DigitVal(c) == (CHOOSE i \in 1..10 : DigitSeq[i] = c) - 1

Min(S) == CHOOSE x \in S : \A y \in S : x <= y

\* s[i:] of Python (1-based i): the suffix that starts at index i.
From(s, i) == SubSeq(s, i, Len(s))

\* str.split(sep) for a one-character separator: always at least one piece.
RECURSIVE PySplit(_, _)
PySplit(s, sep) ==
    IF \E i \in 1..Len(s) : s[i] = sep
    THEN LET i == Min({k \in 1..Len(s) : s[k] = sep})
         IN  <<SubSeq(s, 1, i - 1)>> \o PySplit(From(s, i + 1), sep)
    ELSE <<s>>

\* str.strip(): whitespace removed at both ends.
RECURSIVE PyStrip(_)
PyStrip(s) ==
    IF s = <<>> THEN s
    ELSE IF s[1] \in Whitespace THEN PyStrip(Tail(s))
    ELSE IF s[Len(s)] \in Whitespace THEN PyStrip(SubSeq(s, 1, Len(s) - 1))
    ELSE s

RECURSIVE DigitsValue(_)
DigitsValue(s) ==
    IF s = <<>> THEN 0
    ELSE 10 * DigitsValue(SubSeq(s, 1, Len(s) - 1)) + DigitVal(s[Len(s)])

\* int(s) over the characters the model draws from: surrounding whitespace is
\* stripped, what is left must be a non-empty run of digits; -1 stands for the
\* ValueError of any other text.
PyInt(s) ==
    LET t == PyStrip(s)
    IN  IF t # <<>> /\ \A i \in 1..Len(t) : t[i] \in Digits
        THEN DigitsValue(t)
        ELSE -1

\* str(n) for n >= 0, as the f-strings of bump_version format a number.
RECURSIVE FormatInt(_)
FormatInt(n) ==
    IF n < 10 THEN <<DigitSeq[n + 1]>>
    ELSE FormatInt(n \div 10) \o <<DigitSeq[(n % 10) + 1]>>

(***************************************************************************)
(* Regular-expression pieces shared by the patterns of the source          *)
(***************************************************************************)
\* The index after the longest run of characters of class C that starts at i
\* (i itself when s[i] is not in C): a greedy C* .
RECURSIVE SkipClass(_, _, _)
SkipClass(s, i, C) ==
    IF i <= Len(s) /\ s[i] \in C THEN SkipClass(s, i + 1, C) ELSE i

\* Whether the literal text lit occurs in s at index i.
LitAt(s, i, lit) ==
    /\ i >= 1
    /\ i + Len(lit) - 1 <= Len(s)
    /\ SubSeq(s, i, i + Len(lit) - 1) = lit

\* '$' of Python's re without re.MULTILINE: the end of the string, or the
\* position just before a line break that ends the string.
DollarAt(s, i) ==
    \/ i = Len(s) + 1
    \/ i = Len(s) /\ s[i] = "\n"

(***************************************************************************)
(* validate_version and bump_version                                       *)
(***************************************************************************)
\* (\.[a-zA-Z0-9]+)* from index i: the index after the last identifier taken.
RECURSIVE SkipDotIdents(_, _)
SkipDotIdents(s, i) ==
    IF i <= Len(s) /\ s[i] = "." /\ SkipClass(s, i + 1, AlNum) > i + 1
    THEN SkipDotIdents(s, SkipClass(s, i + 1, AlNum))
    ELSE i

\* re.match(r'^\d+\.\d+\.\d+(-[a-zA-Z0-9]+(\.[a-zA-Z0-9]+)*)?$', version)
validate_version(version) ==
    LET s  == version
        a  == SkipClass(s, 1, Digits)
        b  == SkipClass(s, a + 1, Digits)
        c  == SkipClass(s, b + 1, Digits)
        core == /\ a > 1 /\ a <= Len(s) /\ s[a] = "."
                /\ b > a + 1 /\ b <= Len(s) /\ s[b] = "."
                /\ c > b + 1
        d  == SkipClass(s, c + 1, AlNum)
        e  == SkipDotIdents(s, d)
    IN  /\ core
        /\ \/ DollarAt(s, c)
           \/ /\ c <= Len(s) /\ s[c] = "-"
              /\ d > c + 1
              /\ DollarAt(s, e)

ValueError == [raised |-> TRUE, value |-> <<>>]

Returned(v) == [raised |-> FALSE, value |-> v]

BumpTypes == {"major", "minor", "patch"}

\* bump_version with a minor increment that keeps the patch number.
bump_version_keeps_patch(bump_type, current_version) ==
    LET parts == PySplit(PySplit(current_version, "-")[1], ".")
    IN  IF Len(parts) # 3 THEN ValueError
        ELSE LET major == PyInt(parts[1])
                 minor == PyInt(parts[2])
                 patch == PyInt(parts[3])
             IN  IF major < 0 \/ minor < 0 \/ patch < 0 THEN ValueError
                 ELSE IF bump_type = "major"
                      THEN Returned(FormatInt(major + 1) \o <<".", "0", ".", "0">>)
                 ELSE IF bump_type = "minor"
                      THEN Returned(FormatInt(major) \o <<".">> \o FormatInt(minor + 1)
                                    \o <<".">> \o FormatInt(patch))
                 ELSE Returned(FormatInt(major) \o <<".">> \o FormatInt(minor)
                               \o <<".">> \o FormatInt(patch + 1))

\* bump_version that splits off nothing at '-': the suffix stays on the patch.
bump_version_keeps_suffix(bump_type, current_version) ==
    LET parts == PySplit(PySplit(current_version, "-")[1], ".")
        pieces == PySplit(current_version, "-")
        suffix == IF Len(pieces) > 1
                  THEN SubSeq(current_version, Len(pieces[1]) + 1, Len(current_version))
                  ELSE <<>>
    IN  IF Len(parts) # 3 THEN ValueError
        ELSE LET major == PyInt(parts[1])
                 minor == PyInt(parts[2])
                 patch == PyInt(parts[3])
             IN  IF major < 0 \/ minor < 0 \/ patch < 0 THEN ValueError
                 ELSE IF bump_type = "major"
                      THEN Returned(FormatInt(major + 1) \o <<".", "0", ".", "0">> \o suffix)
                 ELSE IF bump_type = "minor"
                      THEN Returned(FormatInt(major) \o <<".">> \o FormatInt(minor + 1)
                                    \o <<".", "0">> \o suffix)
                 ELSE Returned(FormatInt(major) \o <<".">> \o FormatInt(minor)
                               \o <<".">> \o FormatInt(patch + 1) \o suffix)

bump_version(bump_type, current_version) ==
    LET parts == PySplit(PySplit(current_version, "-")[1], ".")
    IN  IF Len(parts) # 3 THEN ValueError
        ELSE LET major == PyInt(parts[1])
                 minor == PyInt(parts[2])
                 patch == PyInt(parts[3])
             IN  IF major < 0 \/ minor < 0 \/ patch < 0 THEN ValueError
                 ELSE IF bump_type = "major"
                      THEN Returned(FormatInt(major + 1) \o <<".", "0", ".", "0">>)
                 ELSE IF bump_type = "minor"
                      THEN Returned(FormatInt(major) \o <<".">> \o FormatInt(minor + 1)
                                    \o <<".", "0">>)
                 ELSE IF bump_type = "patch"
                      THEN Returned(FormatInt(major) \o <<".">> \o FormatInt(minor)
                                    \o <<".">> \o FormatInt(patch + 1))
                 ELSE ValueError

(***************************************************************************)
(* Manifest text: the patterns of _discover_packages, _add_package and     *)
(* update_version                                                          *)
(***************************************************************************)
kw_name == <<"n", "a", "m", "e">>

kw_version == <<"v", "e", "r", "s", "i", "o", "n">>

kw_members == <<"m", "e", "m", "b", "e", "r", "s">>

kw_path == <<"p", "a", "t", "h">>

kw_lumosai == <<"l", "u", "m", "o", "s", "a", "i", "_">>

kw_lumos == <<"l", "u", "m", "o", "s", "_">>

NoMatch == [found |-> FALSE, start |-> 0, open |-> 0, close |-> 0, stop |-> 0]

\* The index after the longest run, from i, of characters that are NOT in C:
\* a greedy [^C]* .
RECURSIVE SkipNot(_, _, _)
SkipNot(s, i, C) ==
    IF i <= Len(s) /\ s[i] \notin C THEN SkipNot(s, i + 1, C) ELSE i

\* key\s*=\s*["']([^"']+)["'] tried at index i. open is the index of the
\* opening quote, close that of the closing quote, stop the index after it.
FieldAt(s, i, key) ==
    LET e == SkipClass(s, i + Len(key), Whitespace)
        q == SkipClass(s, e + 1, Whitespace)
        c == SkipNot(s, q + 1, Quotes)
    IN  IF /\ LitAt(s, i, key)
           /\ e <= Len(s) /\ s[e] = "="
           /\ q <= Len(s) /\ s[q] \in Quotes
           /\ c > q + 1
           /\ c <= Len(s)
        THEN [found |-> TRUE, start |-> i, open |-> q, close |-> c, stop |-> c + 1]
        ELSE NoMatch

\* re.search(key + r'\s*=\s*["\']([^"\']+)["\']', content): the leftmost match.
RECURSIVE SearchFieldFrom(_, _, _)
SearchFieldFrom(s, i, key) ==
    IF i > Len(s) THEN NoMatch
    ELSE IF s[i] = key[1] /\ FieldAt(s, i, key).found THEN FieldAt(s, i, key)
    ELSE SearchFieldFrom(s, i + 1, key)

SearchField(s, key) == SearchFieldFrom(s, 1, key)

\* match.group(1) of a field match.
Group1(s, m) == SubSeq(s, m.open + 1, m.close - 1)

\* Text of the first version field of a manifest, as _add_package reads it;
\* found is FALSE when the text holds no version field.
ReadVersion(content) ==
    LET m == SearchField(content, kw_version)
    IN  [found |-> m.found, value |-> IF m.found THEN Group1(content, m) ELSE <<>>]

\* re.sub(r'(version\s*=\s*["\'])[^"\']+(["\'])', f'\\g<1>{new_version}\\g<2>',
\*        content, count=1): the first version field's value replaced, the text
\* unchanged when there is no such field. (new_version is drawn from strings
\* without a backslash, which the template would interpret.)
\* The substitution that drops the text after the field it replaced.
SubVersion_truncating(content, new_version) ==
    LET m == SearchField(content, kw_version)
    IN  IF m.found
        THEN SubSeq(content, 1, m.open) \o new_version \o <<content[m.close]>>
        ELSE content

SubVersion(content, new_version) ==
    LET m == SearchField(content, kw_version)
    IN  IF m.found
        THEN SubSeq(content, 1, m.open) \o new_version \o From(content, m.close)
        ELSE content

Max(S) == CHOOSE x \in S : \A y \in S : x >= y

\* (lumosai_\w+|lumos_\w+)\s*=\s*\{[^}]*path\s*= tried at index i: open is the
\* index of the first character of group 1, close the index after its last,
\* stop the index after the match.
DepAt(s, i) ==
    LET pre == IF LitAt(s, i, kw_lumosai) THEN Len(kw_lumosai)
               ELSE IF LitAt(s, i, kw_lumos) THEN Len(kw_lumos)
               ELSE 0
        w == SkipClass(s, i + pre, WordChars)
        e == SkipClass(s, w, Whitespace)
        b == SkipClass(s, e + 1, Whitespace)
        r == SkipNot(s, b + 1, {"}"})
        \* [^}]* is greedy: of the places where path\s*= follows, the last one
        ps == {p \in (b + 1)..(r - 1) :
                 /\ LitAt(s, p, kw_path)
                 /\ p + Len(kw_path) <= r
                 /\ LET t == SkipClass(s, p + Len(kw_path), Whitespace)
                    IN  t <= Len(s) /\ s[t] = "="}
    IN  IF /\ pre > 0
           /\ w > i + pre
           /\ e <= Len(s) /\ s[e] = "="
           /\ b <= Len(s) /\ s[b] = "{"
           /\ ps # {}
        THEN [found |-> TRUE, start |-> i, open |-> i, close |-> w,
              stop |-> SkipClass(s, Max(ps) + Len(kw_path), Whitespace) + 1]
        ELSE NoMatch

\* [m.group(1) for m in re.finditer(dep_pattern, content)] from index i on:
\* leftmost match first, the search resumed where a match stopped.
RECURSIVE FindDeps(_, _)
FindDeps(s, i) ==
    IF i > Len(s) THEN <<>>
    ELSE IF s[i] = "l" /\ DepAt(s, i).found
    THEN LET m == DepAt(s, i)
         IN  <<SubSeq(s, m.open, m.close - 1)>> \o FindDeps(s, m.stop)
    ELSE FindDeps(s, i + 1)

(***************************************************************************)
(* The workspace on disk and package discovery                             *)
(***************************************************************************)
NoFile == [exists |-> FALSE, text |-> <<>>]

File(text) == [exists |-> TRUE, text |-> text]

\* self.workspace_root
RootDir == <<".">>

\* The Cargo.toml of directory dir on disk d.
FileAt(d, dir) == IF dir \in DOMAIN d THEN d[dir] ELSE NoFile

\* self.workspace_root / member
PathJoin(member) == IF member = <<>> THEN RootDir ELSE member

\* str.strip(chars)
RECURSIVE PyStripChars(_, _)
PyStripChars(s, C) ==
    IF s = <<>> THEN s
    ELSE IF s[1] \in C THEN PyStripChars(Tail(s), C)
    ELSE IF s[Len(s)] \in C THEN PyStripChars(SubSeq(s, 1, Len(s) - 1), C)
    ELSE s

\* members\s*=\s*\[(.*?)\] with re.DOTALL tried at index i: open is the index of
\* '[', close that of the first ']' after it.
MembersAt(s, i) ==
    LET e == SkipClass(s, i + Len(kw_members), Whitespace)
        b == SkipClass(s, e + 1, Whitespace)
        c == SkipNot(s, b + 1, {"]"})
    IN  IF /\ LitAt(s, i, kw_members)
           /\ e <= Len(s) /\ s[e] = "="
           /\ b <= Len(s) /\ s[b] = "["
           /\ c <= Len(s)
        THEN [found |-> TRUE, start |-> i, open |-> b, close |-> c, stop |-> c + 1]
        ELSE NoMatch

RECURSIVE SearchMembersFrom(_, _)
SearchMembersFrom(s, i) ==
    IF i > Len(s) THEN NoMatch
    ELSE IF s[i] = "m" /\ MembersAt(s, i).found THEN MembersAt(s, i)
    ELSE SearchMembersFrom(s, i + 1)

SearchMembers(s) == SearchMembersFrom(s, 1)

\* [m.strip().strip('"\'') for m in pieces if m.strip()]
RECURSIVE CleanMembers(_)
CleanMembers(pieces) ==
    IF pieces = <<>> THEN <<>>
    ELSE LET m == PyStrip(Head(pieces))
         IN  (IF m # <<>> THEN <<PyStripChars(m, Quotes)>> ELSE <<>>)
             \o CleanMembers(Tail(pieces))

\* The index of name in the index pkgs, 0 when it has no such key.
IndexOf(pkgs, name) ==
    IF \E i \in 1..Len(pkgs) : pkgs[i].name = name
    THEN CHOOSE i \in 1..Len(pkgs) : pkgs[i].name = name
    ELSE 0

\* self.packages[name] = info: a new key is appended, an existing key keeps its
\* place and takes the new value.
DictSet(pkgs, info) ==
    LET i == IndexOf(pkgs, info.name)
    IN  IF i = 0 THEN Append(pkgs, info) ELSE [pkgs EXCEPT ![i] = info]

add_package(pkgs, d, package_path) ==
    LET cargo_toml == FileAt(d, package_path)
        content == cargo_toml.text
        name_match == SearchField(content, kw_name)
        version_match == SearchField(content, kw_version)
    IN  IF ~cargo_toml.exists THEN pkgs
        ELSE IF ~name_match.found \/ ~version_match.found THEN pkgs
        ELSE DictSet(pkgs, [name |-> Group1(content, name_match),
                            path |-> package_path,
                            version |-> Group1(content, version_match),
                            dependencies |-> FindDeps(content, 1)])

\* The loop over the members ended by the first member without a manifest.
RECURSIVE add_members_until_absent(_, _, _)
add_members_until_absent(pkgs, d, members) ==
    IF members = <<>> THEN pkgs
    ELSE LET member == Head(members)
         IN  IF member # <<>> /\ member[1] = "#"
             THEN add_members_until_absent(pkgs, d, Tail(members))
             ELSE IF FileAt(d, PathJoin(member)).exists
                     /\ SearchField(FileAt(d, PathJoin(member)).text, kw_name).found
             THEN add_members_until_absent(add_package(pkgs, d, PathJoin(member)),
                                           d, Tail(members))
             ELSE pkgs

\* The loop over the members of _discover_packages.
RECURSIVE add_members(_, _, _)
add_members(pkgs, d, members) ==
    IF members = <<>> THEN pkgs
    ELSE LET member == Head(members)
         IN  IF member # <<>> /\ member[1] = "#"
             THEN add_members(pkgs, d, Tail(members))
             ELSE IF FileAt(d, PathJoin(member)).exists
             THEN add_members(add_package(pkgs, d, PathJoin(member)), d, Tail(members))
             ELSE add_members(pkgs, d, Tail(members))

\* VersionManager.__init__ on disk d: the index built, or the exception raised.
discover_packages(d) ==
    LET workspace_toml == FileAt(d, RootDir)
        members_match == SearchMembers(workspace_toml.text)
        members == CleanMembers(PySplit(Group1(workspace_toml.text, members_match), ","))
    IN  IF ~workspace_toml.exists
        THEN [raised |-> "FileNotFoundError", packages |-> <<>>]
        ELSE IF ~members_match.found
        THEN [raised |-> "ValueError", packages |-> <<>>]
        ELSE [raised |-> "none",
              packages |-> add_members(add_package(<<>>, d, RootDir), d, members)]

(***************************************************************************)
(* The methods of VersionManager                                           *)
(***************************************************************************)
Names(pkgs) == [i \in 1..Len(pkgs) |-> pkgs[i].name]

NameSet(pkgs) == {pkgs[i].name : i \in 1..Len(pkgs)}

\* {name: pkg.version for name, pkg in self.packages.items()}
get_current_versions(pkgs) ==
    [n \in NameSet(pkgs) |-> pkgs[IndexOf(pkgs, n)].version]

\* The points at which update_version can fail on I/O: opening the manifest
\* for reading, opening it for writing (nothing is changed yet), and writing
\* after open(..., 'w') has truncated the file (the text, smaller than the
\* writer's buffer, goes out in one write at close: the file is left empty).
Faults == {"read", "open_w", "write"}

\* update_version without line 125: the record in memory keeps its version.
update_version_stale(st, package_name, new_version, fault) ==
    LET i == IndexOf(st.packages, package_name)
        cargo_toml == st.packages[i].path
        f == FileAt(st.disk, cargo_toml)
    IN  IF i = 0
        THEN [packages |-> st.packages, disk |-> st.disk, ret |-> FALSE, raised |-> FALSE]
        ELSE [packages |-> st.packages,
              disk |-> [st.disk EXCEPT ![cargo_toml] = File(SubVersion(f.text, new_version))],
              ret |-> TRUE, raised |-> FALSE]

\* update_version without the return of line 103: an unknown name is
\* reported, and then recorded as a package of the root directory.
update_version_adds(st, package_name, new_version, fault) ==
    LET i == IndexOf(st.packages, package_name)
        cargo_toml == st.packages[i].path
        f == FileAt(st.disk, cargo_toml)
    IN  IF i = 0
        THEN [packages |-> Append(st.packages,
                                  [name |-> package_name, path |-> RootDir,
                                   version |-> new_version, dependencies |-> <<>>]),
              disk |-> st.disk, ret |-> TRUE, raised |-> FALSE]
        ELSE [packages |-> [st.packages EXCEPT ![i].version = new_version],
              disk |-> [st.disk EXCEPT ![cargo_toml] = File(SubVersion(f.text, new_version))],
              ret |-> TRUE, raised |-> FALSE]

\* update_version that stores a new PackageInfo, built without the
\* dependencies, in place of assigning the version field.
update_version_rebuilds(st, package_name, new_version, fault) ==
    LET i == IndexOf(st.packages, package_name)
        cargo_toml == st.packages[i].path
        f == FileAt(st.disk, cargo_toml)
    IN  IF i = 0
        THEN [packages |-> st.packages, disk |-> st.disk, ret |-> FALSE, raised |-> FALSE]
        ELSE [packages |-> [st.packages EXCEPT
                              ![i] = [name |-> package_name, path |-> cargo_toml,
                                      version |-> new_version, dependencies |-> <<>>]],
              disk |-> [st.disk EXCEPT ![cargo_toml] = File(SubVersion(f.text, new_version))],
              ret |-> TRUE, raised |-> FALSE]

update_version(st, package_name, new_version, fault) ==
    LET i == IndexOf(st.packages, package_name)
        cargo_toml == st.packages[i].path
        f == FileAt(st.disk, cargo_toml)
        new_content == SubVersion(f.text, new_version)
    IN  IF i = 0
        THEN [packages |-> st.packages, disk |-> st.disk, ret |-> FALSE, raised |-> FALSE]
        ELSE IF ~f.exists \/ fault \in {"read", "open_w"}
        THEN [packages |-> st.packages, disk |-> st.disk, ret |-> FALSE, raised |-> TRUE]
        ELSE IF fault = "write"
        THEN [packages |-> st.packages,
              disk |-> [st.disk EXCEPT ![cargo_toml] = File(<<>>)],
              ret |-> FALSE, raised |-> TRUE]
        ELSE [packages |-> [st.packages EXCEPT ![i].version = new_version],
              disk |-> [st.disk EXCEPT ![cargo_toml] = File(new_content)],
              ret |-> TRUE, raised |-> FALSE]

NoFault == [at |-> 0, kind |-> "none"]

\* The loop of update_all_versions from the i-th package of the index on;
\* fault.kind strikes at the fault.at-th package. An exception of
\* update_version is not caught here: it ends the loop.
RECURSIVE update_all_from(_, _, _, _, _)
update_all_from(st, new_version, fault, i, success) ==
    IF i > Len(st.packages)
    THEN [packages |-> st.packages, disk |-> st.disk, ret |-> success, raised |-> FALSE]
    ELSE LET r == update_version(st, st.packages[i].name, new_version,
                                 IF fault.at = i THEN fault.kind ELSE "none")
         IN  IF r.raised THEN r
             ELSE update_all_from([packages |-> r.packages, disk |-> r.disk],
                                  new_version, fault, i + 1, success /\ r.ret)

\* update_all_versions with a loop that misses the first package.
update_all_versions_skips_first(st, new_version, fault) ==
    update_all_from(st, new_version, fault, 2, TRUE)

update_all_versions(st, new_version, fault) ==
    update_all_from(st, new_version, fault, 1, TRUE)

Colon == <<":", " ">>

\* check_version_consistency that lists only the packages whose version
\* differs from the first package's.
check_version_consistency_outliers(pkgs) ==
    LET versions == {pkgs[i].version : i \in 1..Len(pkgs)}
        outliers == SelectSeq(pkgs, LAMBDA p : p.version # pkgs[1].version)
    IN  IF Cardinality(versions) = 1
        THEN [consistent |-> TRUE, inconsistent |-> <<>>]
        ELSE [consistent |-> FALSE,
              inconsistent |-> [i \in 1..Len(outliers) |->
                                  outliers[i].name \o Colon \o outliers[i].version]]

\* check_version_consistency that lists the packages last to first.
check_version_consistency_reversed(pkgs) ==
    LET versions == {pkgs[i].version : i \in 1..Len(pkgs)}
    IN  IF Cardinality(versions) = 1
        THEN [consistent |-> TRUE, inconsistent |-> <<>>]
        ELSE [consistent |-> FALSE,
              inconsistent |-> [i \in 1..Len(pkgs) |->
                                  pkgs[Len(pkgs) + 1 - i].name \o Colon
                                  \o pkgs[Len(pkgs) + 1 - i].version]]

\* check_version_consistency that takes no version at all for one version.
check_version_consistency_vacuous(pkgs) ==
    LET versions == {pkgs[i].version : i \in 1..Len(pkgs)}
    IN  IF Cardinality(versions) <= 1
        THEN [consistent |-> TRUE, inconsistent |-> <<>>]
        ELSE [consistent |-> FALSE,
              inconsistent |-> [i \in 1..Len(pkgs) |->
                                  pkgs[i].name \o Colon \o pkgs[i].version]]

check_version_consistency(pkgs) ==
    LET versions == {pkgs[i].version : i \in 1..Len(pkgs)}
    IN  IF Cardinality(versions) = 1
        THEN [consistent |-> TRUE, inconsistent |-> <<>>]
        ELSE [consistent |-> FALSE,
              inconsistent |-> [i \in 1..Len(pkgs) |->
                                  pkgs[i].name \o Colon \o pkgs[i].version]]

\* visit(package_name) of get_dependency_order, on the pair st of the visited
\* set and the order built so far; visit_each is a for loop over names.
RECURSIVE visit(_, _, _)
RECURSIVE visit_each(_, _, _)
\* visit that appends the package before it visits the dependencies.
visit_appends_first(pkgs, package_name, st) ==
    IF package_name \in st.visited \/ IndexOf(pkgs, package_name) = 0
    THEN st
    ELSE visit_each(pkgs, pkgs[IndexOf(pkgs, package_name)].dependencies,
                    [visited |-> st.visited \cup {package_name},
                     order |-> Append(st.order, package_name)])

\* visit without the membership test of line 159: a name that is not in the
\* index is taken for a package without dependencies.
visit_takes_absent(pkgs, package_name, st) ==
    IF package_name \in st.visited
    THEN st
    ELSE LET entered == [st EXCEPT !.visited = @ \cup {package_name}]
             after == IF IndexOf(pkgs, package_name) = 0 THEN entered
                      ELSE visit_each(pkgs, pkgs[IndexOf(pkgs, package_name)].dependencies,
                                      entered)
         IN  [after EXCEPT !.order = Append(@, package_name)]

visit(pkgs, package_name, st) ==
    IF package_name \in st.visited \/ IndexOf(pkgs, package_name) = 0
    THEN st
    ELSE LET entered == [st EXCEPT !.visited = @ \cup {package_name}]
             after == visit_each(pkgs, pkgs[IndexOf(pkgs, package_name)].dependencies,
                                 entered)
         IN  [after EXCEPT !.order = Append(@, package_name)]

visit_each(pkgs, names, st) ==
    IF names = <<>> THEN st
    ELSE visit_each(pkgs, Tail(names), visit(pkgs, Head(names), st))

\* get_dependency_order that visits the packages that share the version of
\* the last package before the others.
get_dependency_order_by_version(pkgs) ==
    LET same == SelectSeq(pkgs, LAMBDA p : p.version = pkgs[Len(pkgs)].version)
        others == SelectSeq(pkgs, LAMBDA p : p.version # pkgs[Len(pkgs)].version)
    IN  visit_each(pkgs, Names(same \o others), [visited |-> {}, order |-> <<>>]).order

get_dependency_order(pkgs) ==
    visit_each(pkgs, Names(pkgs), [visited |-> {}, order |-> <<>>]).order

(***************************************************************************)
(* get_dependency_order, one step of the interpreter at a time             *)
(***************************************************************************)
\* A running for loop: of visit(package) over its dependencies (lines
\* 165-166), or of get_dependency_order over the index (lines 171-172), for
\* which package is the empty string; names[i] is the next name to visit.
Frame(package, names) == [package |-> package, names |-> names, i |-> 1]

\* The traversal before the first step: visited and order are empty (lines
\* 155-156) and the loop over the index is about to start. entered and
\* closing record history: the order in which packages were marked visited,
\* and the pairs <<P, D>> where visit(D) called from visit(P) found D visited
\* and not yet appended.
NoTraversal ==
    [stack |-> <<>>, visited |-> {}, order |-> <<>>, entered |-> <<>>, closing |-> {}]

\* The outer loop running over the index from its last key to its first.
StartTraversal_reversed(pkgs) ==
    [NoTraversal EXCEPT
       !.stack = <<Frame(<<>>, [i \in 1..Len(pkgs) |-> pkgs[Len(pkgs) + 1 - i].name])>>]

StartTraversal(pkgs) == [NoTraversal EXCEPT !.stack = <<Frame(<<>>, Names(pkgs))>>]

\* The test of line 159 with no look at the visited set.
Enters_unmarked(pkgs, visited, package_name) == IndexOf(pkgs, package_name) # 0

\* Line 159: visit(package_name) goes on unless the name is visited or is not
\* in the index.
Enters(pkgs, visited, package_name) ==
    ~(package_name \in visited \/ IndexOf(pkgs, package_name) = 0)

\* One step of the innermost loop of traversal t: the loop is over (the
\* package is appended, line 168, and visit returns), or its next name is
\* visited (lines 159-162).
visit_step(pkgs, t) ==
    LET top == t.stack[Len(t.stack)]
        below == SubSeq(t.stack, 1, Len(t.stack) - 1)
    IN  IF top.i > Len(top.names)
        THEN [t EXCEPT !.stack = below,
                       !.order = IF top.package = <<>> THEN @ ELSE Append(@, top.package)]
        ELSE LET package_name == top.names[top.i]
                 advanced == Append(below, [top EXCEPT !.i = @ + 1])
             IN  IF Enters(pkgs, t.visited, package_name)
                 THEN [t EXCEPT
                         !.stack = Append(advanced,
                                          Frame(package_name,
                                                pkgs[IndexOf(pkgs, package_name)].dependencies)),
                         !.visited = @ \cup {package_name},
                         !.entered = Append(@, package_name)]
                 ELSE [t EXCEPT
                         !.stack = advanced,
                         !.closing =
                            IF /\ top.package # <<>>
                               /\ package_name \in t.visited
                               /\ \A k \in 1..Len(t.order) : t.order[k] # package_name
                            THEN @ \cup {<<top.package, package_name>>}
                            ELSE @]

(***************************************************************************)
(* generate_release_notes                                                  *)
(***************************************************************************)
\* The result of one subprocess.run of git: the call raised (git cannot be
\* started), or it returned with a return code and a standard output.
GitRaised == [raised |-> TRUE, returncode |-> 0, stdout |-> <<>>]

GitResult(returncode, stdout) ==
    [raised |-> FALSE, returncode |-> returncode, stdout |-> stdout]

NotesTitle(version) == <<"#", " ", "R", "e", "l", "e", "a", "s", "e", " ">> \o version

NotesChangesSince ==
    <<"#", "#", " ", "C", "h", "a", "n", "g", "e", "s", " ", "s", "i", "n", "c", "e", " ">>

NotesChanges == <<"#", "#", " ", "C", "h", "a", "n", "g", "e", "s">>

\* The five characters of the fallback entry of line 231, by code point.
NotesUpdatedTo == <<"U+7248", "U+672C", "U+66F4", "U+65B0", "U+5230">>

RECURSIVE CommitLines(_)
CommitLines(commits) ==
    IF commits = <<>> THEN <<>>
    ELSE (IF PyStrip(Head(commits)) # <<>>
          THEN <<"-", " ">> \o Head(commits) \o <<"\n">>
          ELSE <<>>) \o CommitLines(Tail(commits))

FallbackNotes(version) ==
    NotesTitle(version) \o <<"\n", "\n">> \o NotesChanges \o <<"\n", "\n">>
    \o <<"-", " ">> \o NotesUpdatedTo \o <<" ">> \o version \o <<"\n">>

\* generate_release_notes without the test of line 216: the output of git log
\* is used whatever its return code.
generate_release_notes_any_log(version, describe, log) ==
    IF ~describe.raised /\ describe.returncode = 0 /\ ~log.raised
    THEN LET last_tag == PyStrip(describe.stdout)
             commits == PySplit(PyStrip(log.stdout), "\n")
         IN  NotesTitle(version) \o <<"\n", "\n">>
             \o NotesChangesSince \o last_tag \o <<"\n", "\n">>
             \o CommitLines(commits)
    ELSE FallbackNotes(version)

\* describe is the result of `git describe`, log that of `git log`, which is
\* run only when describe returned 0.
generate_release_notes(version, describe, log) ==
    IF ~describe.raised /\ describe.returncode = 0
       /\ ~log.raised /\ log.returncode = 0
    THEN LET last_tag == PyStrip(describe.stdout)
             commits == PySplit(PyStrip(log.stdout), "\n")
         IN  NotesTitle(version) \o <<"\n", "\n">>
             \o NotesChangesSince \o last_tag \o <<"\n", "\n">>
             \o CommitLines(commits)
    ELSE FallbackNotes(version)

(***************************************************************************)
(* main: one run of the command line                                       *)
(***************************************************************************)
\* The parsed arguments; package = <<>> when --package is not given (or is
\* given empty: line 291 tests its truth).
NoArgs == [command |-> "none", version |-> <<>>, package |-> <<>>, type |-> "none"]

\* How a run ends: the disk and the index it leaves, its exit code, whether a
\* command branch was entered, and what the command had to print.
Ended(d, pkgs, code, dispatched, result) ==
    [disk |-> d, packages |-> pkgs, exit |-> code, dispatched |-> dispatched,
     result |-> result]

\* The exit code after a call that may have raised (lines 319-321).
ExitOf(raised) == IF raised THEN 1 ELSE 0

\* The check branch with a failure exit on inconsistent versions.
main_check_failing(vm, d) ==
    LET r == check_version_consistency(vm)
    IN  Ended(d, vm, IF r.consistent THEN 0 ELSE 1, TRUE, r)

\* The check branch (lines 277-284): the verdict is printed.
main_check(vm, d) == Ended(d, vm, 0, TRUE, check_version_consistency(vm))

\* The update branch without lines 287-289: the version is applied as given.
main_update_unvalidated(vm, d, args, fault) ==
    IF args.package # <<>>
    THEN LET r == update_version([packages |-> vm, disk |-> d],
                                 args.package, args.version, fault.kind)
         IN  Ended(r.disk, r.packages, ExitOf(r.raised), TRUE, r.ret)
    ELSE LET r == update_all_versions([packages |-> vm, disk |-> d], args.version, fault)
         IN  Ended(r.disk, r.packages, ExitOf(r.raised), TRUE, r.ret)

\* The update branch (lines 286-294).
main_update(vm, d, args, fault) ==
    IF ~validate_version(args.version)
    THEN Ended(d, vm, 0, TRUE, FALSE)
    ELSE IF args.package # <<>>
    THEN LET r == update_version([packages |-> vm, disk |-> d],
                                 args.package, args.version, fault.kind)
         IN  Ended(r.disk, r.packages, ExitOf(r.raised), TRUE, r.ret)
    ELSE LET r == update_all_versions([packages |-> vm, disk |-> d], args.version, fault)
         IN  Ended(r.disk, r.packages, ExitOf(r.raised), TRUE, r.ret)

\* The bump branch computing the new version from the last package.
main_bump_from_last(vm, d, args, fault) ==
    IF vm = <<>>
    THEN Ended(d, vm, 0, TRUE, FALSE)
    ELSE LET new_version == bump_version(args.type, vm[Len(vm)].version)
         IN  IF new_version.raised
             THEN Ended(d, vm, 1, TRUE, FALSE)
             ELSE LET r == update_all_versions([packages |-> vm, disk |-> d],
                                               new_version.value, fault)
                  IN  Ended(r.disk, r.packages, ExitOf(r.raised), TRUE, new_version.value)

\* The bump branch (lines 296-307).
main_bump(vm, d, args, fault) ==
    IF vm = <<>>
    THEN Ended(d, vm, 0, TRUE, FALSE)
    ELSE LET new_version == bump_version(args.type, vm[1].version)
         IN  IF new_version.raised
             THEN Ended(d, vm, 1, TRUE, FALSE)
             ELSE LET r == update_all_versions([packages |-> vm, disk |-> d],
                                               new_version.value, fault)
                  IN  Ended(r.disk, r.packages, ExitOf(r.raised), TRUE, new_version.value)

\* main() with a handler that swallows the exception of the constructor: the
\* run ends as a run that was given no command.
main_with_failure_swallowed(vm, d, args, fault, git) ==
    IF args.command = "none" \/ vm.raised # "none"
    THEN Ended(d, <<>>, 0, FALSE, FALSE)
    ELSE CASE args.command = "show"
                -> Ended(d, vm.packages, 0, TRUE, get_current_versions(vm.packages))
           [] args.command = "check"
                -> main_check(vm.packages, d)
           [] args.command = "update"
                -> main_update(vm.packages, d, args, fault)
           [] args.command = "bump"
                -> main_bump(vm.packages, d, args, fault)
           [] args.command = "order"
                -> Ended(d, vm.packages, 0, TRUE, get_dependency_order(vm.packages))
           [] args.command = "notes"
                -> Ended(d, vm.packages, 0, TRUE,
                         generate_release_notes(args.version, git[1], git[2]))

\* main() from line 265 on, where vm is what VersionManager(args.workspace)
\* gives on disk d: the index built or the exception raised; fault is the I/O
\* failure that strikes the update, git the results of the two git queries.
main_with(vm, d, args, fault, git) ==
    IF args.command = "none"
    THEN Ended(d, <<>>, 0, FALSE, FALSE)
    ELSE IF vm.raised # "none"
    THEN Ended(d, <<>>, 1, FALSE, FALSE)
    ELSE CASE args.command = "show"
                -> Ended(d, vm.packages, 0, TRUE, get_current_versions(vm.packages))
           [] args.command = "check"
                -> main_check(vm.packages, d)
           [] args.command = "update"
                -> main_update(vm.packages, d, args, fault)
           [] args.command = "bump"
                -> main_bump(vm.packages, d, args, fault)
           [] args.command = "order"
                -> Ended(d, vm.packages, 0, TRUE, get_dependency_order(vm.packages))
           [] args.command = "notes"
                -> Ended(d, vm.packages, 0, TRUE,
                         generate_release_notes(args.version, git[1], git[2]))

main(d, args, fault, git) == main_with(discover_packages(d), d, args, fault, git)

(***************************************************************************)
(* Workspaces: the manifests the model starts from                         *)
(***************************************************************************)
Str_a == <<"a">>

Str_b == <<"b">>

Str_c == <<"c">>

Str_d == <<"d">>

\* Package names of the workspace: lumos_a, lumos_b, lumos_c, lumos_d, and a
\* name that no manifest declares.
PkgName(dir) == kw_lumos \o dir

RootName == <<"l", "u", "m", "o", "s", "a", "i">>

AbsentName == kw_lumos \o <<"z">>

V010 == <<"0", ".", "1", ".", "0">>

V020 == <<"0", ".", "2", ".", "0">>

V100b1 == <<"1", ".", "0", ".", "0", "-", "b", ".", "1">>

V10 == <<"1", ".", "0">>

\* key = "value" and a line break.
FieldLine(key, value) ==
    key \o <<" ", "=", " ", "\"">> \o value \o <<"\"", "\n">>

\* name = { path = "../dir" }: a local dependency.
DepLine(name, dir) ==
    name \o <<" ", "=", " ", "{", " ">> \o kw_path \o <<" ", "=", " ", "\"", ".", ".", "/">>
         \o dir \o <<"\"", " ", "}", "\n">>

\* name={version='v',path='../dir'}: a local dependency that also states a version.
DepLineVersioned(name, dir, v) ==
    name \o <<"=", "{">> \o kw_version \o <<"=", "'">> \o v \o <<"'", ",">>
         \o kw_path \o <<"=", "'", ".", ".", "/">> \o dir \o <<"'", "}", "\n">>

RECURSIVE Concat(_)
Concat(texts) == IF texts = <<>> THEN <<>> ELSE Head(texts) \o Concat(Tail(texts))

\* A member manifest: name, version and the dependency lines.
Manifest(name, v, deplines) ==
    FieldLine(kw_name, name) \o FieldLine(kw_version, v) \o Concat(deplines)

\* The root manifest's members = ["a", "b", ...] line.
RECURSIVE MemberList(_)
MemberList(dirs) ==
    IF dirs = <<>> THEN <<>>
    ELSE <<"\"">> \o Head(dirs) \o <<"\"">>
         \o (IF Len(dirs) > 1 THEN <<",", " ">> ELSE <<>>) \o MemberList(Tail(dirs))

MembersLine(dirs) ==
    kw_members \o <<" ", "=", " ", "[">> \o MemberList(dirs) \o <<"]", "\n">>

\* The scenario of the documentation: A depends on B, C on A and B; the root
\* manifest declares no package of its own.
ScenarioWorkspace(va, vb, vc) ==
    (RootDir :> File(MembersLine(<<Str_a, Str_b, Str_c>>)))
    @@ (Str_a :> File(Manifest(PkgName(Str_a), va, <<DepLine(PkgName(Str_b), Str_b)>>)))
    @@ (Str_b :> File(Manifest(PkgName(Str_b), vb, <<>>)))
    @@ (Str_c :> File(Manifest(PkgName(Str_c), vc,
                               <<DepLine(PkgName(Str_a), Str_a),
                                 DepLineVersioned(PkgName(Str_b), Str_b, vb)>>)))
    @@ (Str_d :> NoFile)

\* The root manifest declares a package too; member a states the version of
\* its dependency b; member c is listed but has no manifest; member d's
\* manifest has a name and no version.
RootedWorkspace(vr, va, vb) ==
    (RootDir :> File(FieldLine(kw_name, RootName) \o FieldLine(kw_version, vr)
                     \o MembersLine(<<Str_a, Str_b, Str_c, Str_d>>)))
    @@ (Str_a :> File(Manifest(PkgName(Str_a), va,
                               <<DepLineVersioned(PkgName(Str_b), Str_b, vb),
                                 DepLine(AbsentName, <<"z">>)>>)))
    @@ (Str_b :> File(Manifest(PkgName(Str_b), vb, <<>>)))
    @@ (Str_c :> NoFile)
    @@ (Str_d :> File(FieldLine(kw_name, PkgName(Str_d))))

\* No parseable package at all: the index is empty.
EmptyWorkspace ==
    (RootDir :> File(MembersLine(<<Str_d>>)))
    @@ (Str_a :> NoFile) @@ (Str_b :> NoFile) @@ (Str_c :> NoFile)
    @@ (Str_d :> File(FieldLine(kw_name, PkgName(Str_d))))

Workspaces ==
    {ScenarioWorkspace(V010, V010, V010), ScenarioWorkspace(V010, V010, V020),
     RootedWorkspace(V010, V010, V010), EmptyWorkspace}

(***************************************************************************)
(* The state machine: calls on a VersionManager, as main() makes them      *)
(***************************************************************************)
NoCall ==
    [op |-> "none", name |-> <<>>, version |-> <<>>, kind |-> "none", parts |-> <<>>,
     fault |-> NoFault, git |-> <<>>, ret |-> FALSE, raised |-> FALSE, tick |-> FALSE,
     command |-> "none", exit |-> 0, dispatched |-> FALSE, traversal |-> NoTraversal]

\* The record of a call made now: tick flips at every call.
Call(op) == [NoCall EXCEPT !.op = op, !.tick = ~last.tick]

\* The version strings a caller may pass; main() passes a version on only
\* after validate_version accepted it (line 287).
CandidateVersions == {V020, V100b1, V10, <<>>}

\* The names a caller may pass as package_name.
CandidateNames == {PkgName(Str_a), PkgName(Str_b), PkgName(Str_c), RootName, AbsentName}

\* Most I/O failures in one behaviour.
MaxFaults == 1

NoSnapshot == [packages |-> <<>>, disk |-> <<>>]

Init ==
    /\ disk \in Workspaces
    /\ packages = discover_packages(disk).packages
    /\ pc = "ready"
    /\ last = NoCall
    /\ before = NoSnapshot
    /\ faults = 0

\* A new run of the program after one that an exception ended:
\* VersionManager(args.workspace) builds the index from the manifests on disk.
Start ==
    /\ pc = "exited"
    /\ \E r \in {discover_packages(disk)} :
          /\ r.raised = "none"
          /\ packages' = r.packages
          /\ pc' = "ready"
    /\ UNCHANGED <<disk, last, before, faults>>

GetCurrentVersions ==
    /\ pc = "ready"
    /\ last' = [Call("get_current_versions") EXCEPT !.ret = get_current_versions(packages)]
    /\ UNCHANGED <<disk, packages, pc, before, faults>>

CheckVersionConsistency ==
    /\ pc = "ready"
    /\ last' = [Call("check_version_consistency") EXCEPT
                  !.ret = check_version_consistency(packages)]
    /\ UNCHANGED <<disk, packages, pc, before, faults>>

\* get_dependency_order that leaves the index in the order it returns.
GetDependencyOrder_sorting ==
    /\ pc = "ready"
    /\ last' = [Call("get_dependency_order") EXCEPT !.ret = get_dependency_order(packages)]
    /\ packages' = [i \in 1..Len(packages) |->
                      packages[IndexOf(packages, get_dependency_order(packages)[i])]]
    /\ UNCHANGED <<disk, pc, before, faults>>

GetDependencyOrder ==
    /\ pc = "ready"
    /\ last' = [Call("get_dependency_order") EXCEPT !.ret = get_dependency_order(packages)]
    /\ UNCHANGED <<disk, packages, pc, before, faults>>

\* bump_version on the version of the first package, as main() calls it
\* (lines 296-303); an exception ends the process (lines 319-321).
BumpFirstVersion(bump_type) ==
    /\ pc = "ready"
    /\ Len(packages) > 0
    /\ \E r \in {bump_version(bump_type, packages[1].version)} :
          /\ last' = [Call("bump_version") EXCEPT
                        !.kind = bump_type, !.version = packages[1].version,
                        !.ret = r.value, !.raised = r.raised]
          /\ pc' = IF r.raised THEN "exited" ELSE "ready"
    /\ UNCHANGED <<disk, packages, before, faults>>

\* The results git may give: describe names a tag, fails (no tag) or cannot
\* be run; log lists commits, fails or cannot be run.
TagOut == <<"v", "1", "\n">>

LogOut == <<"a", " ", "x", "\n", " ", "\n", "b">>

DescribeResults == {GitResult(0, TagOut), GitResult(128, <<>>), GitRaised}

LogResults == {GitResult(0, LogOut), GitResult(0, <<>>), GitResult(128, <<>>), GitRaised}

\* git log is not run unless git describe returned 0.
NotRun == GitResult(0, <<>>)

GenerateReleaseNotes(version, describe, log) ==
    /\ pc = "ready"
    /\ (describe.raised \/ describe.returncode # 0) => log = NotRun
    /\ last' = [Call("generate_release_notes") EXCEPT
                  !.version = version, !.git = <<describe, log>>,
                  !.ret = generate_release_notes(version, describe, log)]
    /\ UNCHANGED <<disk, packages, pc, before, faults>>

\* update_version(package_name, new_version), with an I/O failure at fault.
UpdateVersionCall(package_name, new_version, fault) ==
    /\ pc = "ready"
    /\ validate_version(new_version)
    /\ IndexOf(packages, package_name) = 0 => fault = "none"
    /\ fault # "none" => faults < MaxFaults
    /\ faults' = IF fault = "none" THEN faults ELSE faults + 1
    /\ \E r \in {update_version([packages |-> packages, disk |-> disk],
                                package_name, new_version, fault)} :
          /\ packages' = r.packages
          /\ disk' = r.disk
          /\ pc' = IF r.raised THEN "exited" ELSE "ready"
          /\ last' = [Call("update_version") EXCEPT
                        !.name = package_name, !.version = new_version,
                        !.fault = [at |-> IndexOf(packages, package_name), kind |-> fault],
                        !.ret = r.ret, !.raised = r.raised]

\* update_all_versions(new_version), with an I/O failure as fault says.
UpdateAllVersionsCall(new_version, fault) ==
    /\ pc = "ready"
    /\ validate_version(new_version)
    /\ fault # NoFault => faults < MaxFaults
    /\ faults' = IF fault = NoFault THEN faults ELSE faults + 1
    /\ \E r \in {update_all_versions([packages |-> packages, disk |-> disk],
                                     new_version, fault)} :
          /\ packages' = r.packages
          /\ disk' = r.disk
          /\ pc' = IF r.raised THEN "exited" ELSE "ready"
          /\ last' = [Call("update_all_versions") EXCEPT
                        !.version = new_version, !.fault = fault,
                        !.ret = r.ret, !.raised = r.raised]

UpdateVersion(package_name, new_version, fault) ==
    /\ UpdateVersionCall(package_name, new_version, fault)
    /\ UNCHANGED before

UpdateAllVersions(new_version, fault) ==
    /\ UpdateAllVersionsCall(new_version, fault)
    /\ UNCHANGED before

Next ==
    \/ Start
    \/ GetCurrentVersions
    \/ CheckVersionConsistency
    \/ GetDependencyOrder
    \/ \E t \in BumpTypes : BumpFirstVersion(t)
    \/ \E d \in DescribeResults, l \in LogResults : GenerateReleaseNotes(V020, d, l)
    \/ \E p \in CandidateNames, v \in CandidateVersions, f \in Faults \cup {"none"} :
          UpdateVersion(p, v, f)
    \/ \E v \in CandidateVersions :
          UpdateAllVersions(v, NoFault)
    \/ \E v \in CandidateVersions, k \in 1..Len(packages), f \in Faults :
          UpdateAllVersions(v, [at |-> k, kind |-> f])

Spec == Init /\ [][Next]_vars

(***************************************************************************)
(* SpecRerun: the update calls alone, remembering the state each found     *)
(***************************************************************************)
TrackedUpdateVersion(package_name, new_version, fault) ==
    /\ UpdateVersionCall(package_name, new_version, fault)
    /\ before' = [packages |-> packages, disk |-> disk]

TrackedUpdateAllVersions(new_version, fault) ==
    /\ UpdateAllVersionsCall(new_version, fault)
    /\ before' = [packages |-> packages, disk |-> disk]

NextRerun ==
    \/ Start
    \/ \E p \in CandidateNames, v \in CandidateVersions, f \in Faults \cup {"none"} :
          TrackedUpdateVersion(p, v, f)
    \/ \E v \in CandidateVersions :
          TrackedUpdateAllVersions(v, NoFault)
    \/ \E v \in CandidateVersions, k \in 1..Len(packages), f \in Faults :
          TrackedUpdateAllVersions(v, [at |-> k, kind |-> f])

SpecRerun == Init /\ [][NextRerun]_vars

(***************************************************************************)
(* SpecVersion: validate_version and bump_version on drawn strings         *)
(***************************************************************************)
\* Longest string drawn character by character.
MaxLen == 6

\* Largest number drawn as a version component.
MaxNum == 10

VersionAlphabet == {"1", ".", "-", "b", "\n"}

ShortStrings == UNION {[1..n -> VersionAlphabet] : n \in 0..MaxLen}

\* The strings the documentation names.
DocStrings ==
    {<<"1", ".", "0", ".", "0">>,
     <<"1", ".", "0", ".", "0", "-", "b", "e", "t", "a", ".", "1">>,
     <<"1", ".", "0">>,
     <<"v", "1", ".", "0", ".", "0">>,
     <<"1", ".", "0", ".", "0", "-">>,
     <<"1", ".", "2", ".", "3">>,
     <<"1", ".", "2", ".", "3", "-", "b", "e", "t", "a", ".", "1">>}

Prereleases == {<<>>, <<"-", "b">>, <<"-", "b", "e", "t", "a", ".", "1">>}

Pads == {<<>>, <<"0">>}

\* pad MAJOR . MINOR . PATCH pre
Compose(pad, major, minor, patch, pre) ==
    pad \o FormatInt(major) \o <<".">> \o FormatInt(minor) \o <<".">> \o FormatInt(patch) \o pre

InitVersion ==
    /\ disk = EmptyWorkspace
    /\ packages = discover_packages(disk).packages
    /\ pc = "ready"
    /\ last = NoCall
    /\ before = NoSnapshot
    /\ faults = 0

ValidateVersion(version) ==
    /\ last' = [NoCall EXCEPT !.op = "validate_version", !.version = version,
                              !.ret = validate_version(version)]
    /\ UNCHANGED <<disk, packages, pc, before, faults>>

\* parts is <<MAJOR, MINOR, PATCH>> when current_version was composed of them.
BumpVersion(bump_type, current_version, parts) ==
    /\ \E r \in {bump_version(bump_type, current_version)} :
          last' = [NoCall EXCEPT !.op = "bump_version", !.kind = bump_type,
                                 !.version = current_version, !.parts = parts,
                                 !.ret = r.value, !.raised = r.raised]
    /\ UNCHANGED <<disk, packages, pc, before, faults>>

\* One call per behaviour, on a drawn string or on a composed version.
NextVersion ==
    \/ /\ last = NoCall
       /\ \E s \in ShortStrings \cup DocStrings : ValidateVersion(s)
    \/ /\ last = NoCall
       /\ \E s \in ShortStrings \cup DocStrings, k \in BumpTypes : BumpVersion(k, s, <<>>)
    \/ /\ last = NoCall
       /\ \E pad \in Pads, major \in 0..MaxNum, minor \in 0..MaxNum, patch \in 0..MaxNum,
             pre \in Prereleases :
             ValidateVersion(Compose(pad, major, minor, patch, pre))
    \/ /\ last = NoCall
       /\ \E pad \in Pads, major \in 0..MaxNum, minor \in 0..MaxNum, patch \in 0..MaxNum,
             pre \in Prereleases, k \in BumpTypes :
             BumpVersion(k, Compose(pad, major, minor, patch, pre), <<major, minor, patch>>)

SpecVersion == InitVersion /\ [][NextVersion]_vars

(***************************************************************************)
(* SpecOrder: get_dependency_order on drawn dependency lists               *)
(***************************************************************************)
\* Longest dependency list drawn.
MaxDeps == 2

DepUniverse == {PkgName(Str_a), PkgName(Str_b), PkgName(Str_c), AbsentName}

DepLists == UNION {[1..n -> DepUniverse] : n \in 0..MaxDeps}

Pkg(dir, deps) ==
    [name |-> PkgName(dir), path |-> dir, version |-> V010, dependencies |-> deps]

\* The index of three packages with any dependency lists; this specification
\* reads no manifest.
InitOrder ==
    /\ \E da \in DepLists, db \in DepLists, dc \in DepLists :
          packages = <<Pkg(Str_a, da), Pkg(Str_b, db), Pkg(Str_c, dc)>>
    /\ disk = <<>>
    /\ pc = "ready"
    /\ last = NoCall
    /\ before = NoSnapshot
    /\ faults = 0

NextOrder == GetDependencyOrder

SpecOrder == InitOrder /\ [][NextOrder]_vars

(***************************************************************************)
(* SpecMain: runs of the command line, one process each                    *)
(***************************************************************************)
\* No Cargo.toml in the workspace root; the member directories are there.
NoRootWorkspace ==
    [ScenarioWorkspace(V010, V010, V010) EXCEPT ![RootDir] = NoFile]

\* A root manifest of a single package: no members list.
NoMembersWorkspace ==
    [ScenarioWorkspace(V010, V010, V010) EXCEPT
       ![RootDir] = File(FieldLine(kw_name, RootName) \o FieldLine(kw_version, V010))]

\* The first package declares a two-part version.
ShortVersionWorkspace == ScenarioWorkspace(V10, V010, V010)

MainWorkspaces ==
    {ScenarioWorkspace(V010, V010, V010), ScenarioWorkspace(V010, V010, V020),
     RootedWorkspace(V010, V010, V010), EmptyWorkspace,
     NoRootWorkspace, NoMembersWorkspace, ShortVersionWorkspace}

\* The versions given to update: one that validate_version accepts and two
\* that it rejects.
MainVersions == {V020, V10, <<"v">> \o V020}

\* The values of --package: not given, a member, a name in no manifest.
MainPackages == {<<>>, PkgName(Str_b), AbsentName}

\* Largest number a bump may put into a version.
MaxPart == 1

VersionParts(version) == PySplit(PySplit(version, "-")[1], ".")

WithinMaxPart(pkgs) ==
    \A i \in 1..Len(pkgs) :
       \A k \in 1..Len(VersionParts(pkgs[i].version)) :
          PyInt(VersionParts(pkgs[i].version)[k]) <= MaxPart

InitMain ==
    /\ disk \in MainWorkspaces
    /\ packages = <<>>
    /\ pc = "shell"
    /\ last = NoCall
    /\ before = NoSnapshot
    /\ faults = 0

\* One process: main() from its first line to its exit.
Main(vm, args, fault, git) ==
    /\ pc = "shell"
    /\ fault # NoFault => faults < MaxFaults
    /\ \E r \in {main_with(vm, disk, args, fault, git)} :
          /\ args.command = "bump" => WithinMaxPart(r.packages)
          \* a failure that found nothing to strike is no failure
          /\ fault # NoFault => r.exit = 1
          /\ disk' = r.disk
          /\ packages' = r.packages
          /\ last' = [Call("main") EXCEPT
                        !.command = args.command, !.name = args.package,
                        !.version = args.version, !.kind = args.type,
                        !.fault = fault, !.git = git, !.ret = r.result,
                        !.exit = r.exit, !.dispatched = r.dispatched,
                        !.raised = r.exit # 0]
    /\ faults' = IF fault = NoFault THEN faults ELSE faults + 1
    \* the index a bump found is remembered
    /\ before' = IF args.command = "bump"
                 THEN [packages |-> vm.packages, disk |-> <<>>]
                 ELSE NoSnapshot
    /\ UNCHANGED pc

\* The I/O failures of a run: none, or the write of the first manifest.
MainFaults == {NoFault, [at |-> 1, kind |-> "write"]}

\* The VersionManager is constructed once in a run (line 270).
NextMain ==
    \E vm \in {discover_packages(disk)} :
       \/ Main(vm, NoArgs, NoFault, <<>>)
       \/ \E c \in {"show", "check", "order"} :
             Main(vm, [NoArgs EXCEPT !.command = c], NoFault, <<>>)
       \/ \E v \in MainVersions, p \in MainPackages, f \in MainFaults :
             Main(vm, [NoArgs EXCEPT !.command = "update", !.version = v, !.package = p],
                  f, <<>>)
       \/ \E t \in BumpTypes, f \in MainFaults :
             Main(vm, [NoArgs EXCEPT !.command = "bump", !.type = t], f, <<>>)
       \/ \E d \in DescribeResults :
             Main(vm, [NoArgs EXCEPT !.command = "notes", !.version = V020], NoFault,
                  <<d, IF d = GitResult(0, TagOut) THEN GitResult(0, LogOut) ELSE NotRun>>)

SpecMain == InitMain /\ [][NextMain]_vars

(***************************************************************************)
(* SpecVisit: get_dependency_order step by step on drawn dependency lists  *)
(***************************************************************************)
\* Most frames on the stack of the traversal.
MaxStack == 4

InitVisit ==
    /\ \E da \in DepLists, db \in DepLists, dc \in DepLists :
          packages = <<Pkg(Str_a, da), Pkg(Str_b, db), Pkg(Str_c, dc)>>
    /\ disk = <<>>
    /\ pc = "visiting"
    /\ last = [NoCall EXCEPT !.op = "get_dependency_order", !.ret = <<>>,
                             !.traversal = StartTraversal(packages)]
    /\ before = NoSnapshot
    /\ faults = 0

\* The interpreter executes the next step of the loops.
VisitStep ==
    /\ pc = "visiting"
    /\ last.traversal.stack # <<>>
    /\ Len(last.traversal.stack) <= MaxStack
    /\ last' = [last EXCEPT !.traversal = visit_step(packages, last.traversal)]
    /\ UNCHANGED <<disk, packages, pc, before, faults>>

\* return order (line 174)
VisitReturn ==
    /\ pc = "visiting"
    /\ last.traversal.stack = <<>>
    /\ pc' = "returned"
    /\ last' = [last EXCEPT !.ret = last.traversal.order]
    /\ UNCHANGED <<disk, packages, before, faults>>

NextVisit == VisitStep \/ VisitReturn

\* The interpreter does not stop in the middle of a call.
SpecVisit == InitVisit /\ [][NextVisit]_vars /\ WF_vars(NextVisit)

(***************************************************************************)
(* SpecReadOnly: the queries of a manager, between complete updates        *)
(***************************************************************************)
\* validate_version(version) called on the manager, as main() calls it (line
\* 287).
ValidateVersionCall(version) ==
    /\ pc = "ready"
    /\ last' = [Call("validate_version") EXCEPT
                  !.version = version, !.ret = validate_version(version)]
    /\ UNCHANGED <<disk, packages, pc, before, faults>>

NextReadOnly ==
    \/ GetCurrentVersions
    \/ CheckVersionConsistency
    \/ GetDependencyOrder
    \/ \E t \in BumpTypes : BumpFirstVersion(t)
    \/ \E d \in DescribeResults, l \in LogResults : GenerateReleaseNotes(V020, d, l)
    \/ \E v \in CandidateVersions : ValidateVersionCall(v)
    \/ \E v \in CandidateVersions : UpdateAllVersions(v, NoFault)

SpecReadOnly == Init /\ [][NextReadOnly]_vars

(***************************************************************************)
(* SpecDeps: discovery of a member whose manifest declares drawn           *)
(* dependencies                                                            *)
(***************************************************************************)
\* Most dependency declarations in the manifest.
MaxDecls == 2

\* Names of dependencies: with the lumos_ prefix, with the lumosai_ prefix,
\* and with neither.
DeclNames == {PkgName(Str_b), kw_lumosai \o Str_c, <<"c", "o", "r", "e">>}

\* A declaration gives a path, a version and a path, or only a version.
DeclKinds == {"path", "versioned_path", "registry"}

Decls == [name : DeclNames, kind : DeclKinds]

DeclLists == UNION {[1..n -> Decls] : n \in 0..MaxDecls}

\* name={path='b'}, name={version='1',path='b'} and name='1', each on a line
\* of its own.
DeclLine(decl) ==
    IF decl.kind = "path"
    THEN decl.name \o <<"=", "{">> \o kw_path \o <<"=", "'", "b", "'", "}", "\n">>
    ELSE IF decl.kind = "versioned_path"
    THEN decl.name \o <<"=", "{">> \o kw_version \o <<"=", "'", "1", "'", ",">>
                   \o kw_path \o <<"=", "'", "b", "'", "}", "\n">>
    ELSE decl.name \o <<"=", "'", "1", "'", "\n">>

\* The workspace of one member, a, whose manifest holds the declarations.
DeclWorkspace(decls) ==
    (RootDir :> File(MembersLine(<<Str_a>>)))
    @@ (Str_a :> File(kw_name \o <<"=", "'">> \o PkgName(Str_a) \o <<"'", "\n">>
                      \o kw_version \o <<"=", "'", "1", "'", "\n">>
                      \o Concat([k \in 1..Len(decls) |-> DeclLine(decls[k])])))
    @@ (Str_b :> NoFile) @@ (Str_c :> NoFile) @@ (Str_d :> NoFile)

InitDeps ==
    /\ \E decls \in DeclLists : disk = DeclWorkspace(decls)
    /\ packages = <<>>
    /\ pc = "shell"
    /\ last = NoCall
    /\ before = NoSnapshot
    /\ faults = 0

\* VersionManager(args.workspace): the index is built from the manifests.
Discover ==
    /\ pc = "shell"
    /\ \E r \in {discover_packages(disk)} :
          /\ r.raised = "none"
          /\ packages' = r.packages
          /\ pc' = "ready"
    /\ UNCHANGED <<disk, last, before, faults>>

NextDeps == Discover

SpecDeps == InitDeps /\ [][NextDeps]_vars

(***************************************************************************)
(* Properties                                                              *)
(***************************************************************************)
\* The internal dependencies of package n: those of its dependency names that
\* are keys of the index.
DepsOf(pkgs, n) ==
    LET deps == pkgs[IndexOf(pkgs, n)].dependencies
    IN  {deps[k] : k \in 1..Len(deps)} \cap NameSet(pkgs)

RECURSIVE ReachableIn(_, _, _, _)
ReachableIn(pkgs, from, to, steps) ==
    /\ steps > 0
    /\ \/ to \in DepsOf(pkgs, from)
       \/ \E m \in DepsOf(pkgs, from) : ReachableIn(pkgs, m, to, steps - 1)

Acyclic(pkgs) == \A n \in NameSet(pkgs) : ~ReachableIn(pkgs, n, n, Len(pkgs))

Occurs(seq, x) == \E i \in 1..Len(seq) : seq[i] = x

Before(seq, x, y) ==
    /\ Occurs(seq, x)
    /\ Occurs(seq, y)
    /\ \A i \in 1..Len(seq), j \in 1..Len(seq) : (seq[i] = x /\ seq[j] = y) => i < j

\* C1: on an index whose internal dependencies form no cycle, order() returns
\* a sequence in which every dependency D of a package P that is in the index
\* stands strictly before P.
C1_OrderRespectsDependencies ==
    (last.op = "get_dependency_order" /\ Acyclic(packages))
    => \A n \in NameSet(packages) : \A d \in DepsOf(packages, n) : Before(last.ret, d, n)

\* a depends on b and b on c, against the order of the index: c, b, a comes out.
C1_Witness ==
    /\ last.op = "get_dependency_order"
    /\ Acyclic(packages)
    /\ Len(packages) = 3
    /\ PkgName(Str_b) \in DepsOf(packages, PkgName(Str_a))
    /\ PkgName(Str_c) \in DepsOf(packages, PkgName(Str_b))
    /\ last.ret = <<PkgName(Str_c), PkgName(Str_b), PkgName(Str_a)>>

\* All package records share one version string: there is a record, and every
\* record has its version.
ShareOneVersion(pkgs) ==
    \E i \in 1..Len(pkgs) : \A j \in 1..Len(pkgs) : pkgs[j].version = pkgs[i].version

\* C2: check() returns (true, []) exactly when all package records share one
\* version string, and otherwise false with one mismatch entry per package.
C2_CheckVerdict ==
    last.op = "check_version_consistency"
    => /\ last.ret.consistent <=> ShareOneVersion(packages)
       /\ last.ret.consistent => last.ret.inconsistent = <<>>
       /\ ~last.ret.consistent => Len(last.ret.inconsistent) = Len(packages)

\* check() on three packages of which exactly one differs.
C2_Witness ==
    /\ last.op = "check_version_consistency"
    /\ Len(packages) = 3
    /\ packages[1].version = packages[2].version
    /\ packages[3].version # packages[1].version
    /\ ~last.ret.consistent
    /\ Len(last.ret.inconsistent) = 3

Dotted(major, minor, patch) ==
    FormatInt(major) \o <<".">> \o FormatInt(minor) \o <<".">> \o FormatInt(patch)

\* C3: for a version MAJOR.MINOR.PATCH with or without a pre-release suffix,
\* bump returns (MAJOR+1).0.0, MAJOR.(MINOR+1).0 or MAJOR.MINOR.(PATCH+1),
\* without the suffix.
C3_BumpArithmetic ==
    (last.op = "bump_version" /\ last.parts # <<>>)
    => /\ ~last.raised
       /\ last.kind = "major" => last.ret = Dotted(last.parts[1] + 1, 0, 0)
       /\ last.kind = "minor" => last.ret = Dotted(last.parts[1], last.parts[2] + 1, 0)
       /\ last.kind = "patch"
          => last.ret = Dotted(last.parts[1], last.parts[2], last.parts[3] + 1)

\* bump("1.2.3-beta.1", "patch") == "1.2.4"
C3_Witness ==
    /\ last.op = "bump_version"
    /\ last.kind = "patch"
    /\ last.version = <<"1", ".", "2", ".", "3", "-", "b", "e", "t", "a", ".", "1">>
    /\ last.parts = <<1, 2, 3>>
    /\ last.ret = <<"1", ".", "2", ".", "4">>

\* s[i..j] is a non-empty run of characters of class C.
RunOf(s, i, j, C) == i <= j /\ \A k \in i..j : s[k] \in C

\* s[i..j] is one or more non-empty alphanumeric identifiers separated by dots.
IdentListOf(s, i, j) ==
    /\ i <= j
    /\ \A k \in i..j : s[k] \in AlNum \cup {"."}
    /\ s[i] # "." /\ s[j] # "."
    /\ \A k \in i..(j - 1) : ~(s[k] = "." /\ s[k + 1] = ".")

\* The whole of s is three dot-separated non-empty digit runs, optionally
\* followed by '-' and dot-separated non-empty alphanumeric identifiers.
IsVersionString(s) ==
    \E a \in 1..Len(s), b \in 1..Len(s), c \in 1..(Len(s) + 1) :
       /\ a < b /\ b < c
       /\ s[a] = "." /\ s[b] = "."
       /\ RunOf(s, 1, a - 1, Digits)
       /\ RunOf(s, a + 1, b - 1, Digits)
       /\ RunOf(s, b + 1, c - 1, Digits)
       /\ \/ c = Len(s) + 1
          \/ s[c] = "-" /\ IdentListOf(s, c + 1, Len(s))

\* C4: validation accepts a string exactly when the whole string, with no
\* extra character before or after (a trailing line break included), has the
\* version format.
C4_ValidationIsExact ==
    last.op = "validate_version" => (last.ret <=> IsVersionString(last.version))

\* The path of package name's manifest directory.
PathOf(pkgs, name) == pkgs[IndexOf(pkgs, name)].path

\* C5: after set_version(p, v) succeeded, show() maps p to v and p's manifest
\* declares version v.
C5_SetVersionRoundTrip ==
    (last.op = "update_version" /\ last.ret /\ ~last.raised)
    => /\ last.name \in DOMAIN get_current_versions(packages)
       /\ get_current_versions(packages)[last.name] = last.version
       /\ ReadVersion(FileAt(disk, PathOf(packages, last.name)).text)
            = [found |-> TRUE, value |-> last.version]

\* A pre-release version set on c, whose manifest holds a second version field.
C5_Witness ==
    /\ last.op = "update_version"
    /\ last.ret
    /\ last.name = PkgName(Str_c)
    /\ last.version = V100b1
    /\ Len(packages) = 3
    /\ packages[3].version = V100b1

\* A step that is a call on the manager.
IsCall == last'.tick # last.tick

\* C6: set_version(p, v) with a name p that is not in the index reports
\* failure and changes nothing: no manifest and no package record.
C6_UnknownPackage ==
    [][(IsCall /\ last'.op = "update_version" /\ IndexOf(packages, last'.name) = 0)
       => (~last'.ret /\ ~last'.raised /\ disk' = disk /\ packages' = packages)]_vars

C6_Witness ==
    /\ last.op = "update_version"
    /\ last.name = AbsentName
    /\ IndexOf(packages, last.name) = 0
    /\ ~last.ret
    /\ Len(packages) = 3

\* C7: on a non-empty index, after update_all(v) completed without an I/O
\* failure every package's version is v and check() answers consistent with no
\* mismatch.
C7_UpdateAllConsistent ==
    (last.op = "update_all_versions" /\ ~last.raised /\ Len(packages) > 0)
    => /\ \A i \in 1..Len(packages) : packages[i].version = last.version
       /\ check_version_consistency(packages) = [consistent |-> TRUE, inconsistent |-> <<>>]

C7_Witness ==
    /\ last.op = "update_all_versions"
    /\ ~last.raised
    /\ last.ret
    /\ last.version = V100b1
    /\ Len(packages) = 3
    /\ \A i \in 1..3 : ReadVersion(FileAt(disk, packages[i].path).text).value = V100b1

\* C8: when update_all(v) fails at package K, packages 1..K-1 have v in memory
\* and on disk, and packages K..N are as they were, in memory and on disk.
C8_PartialUpdate ==
    [][(IsCall /\ last'.op = "update_all_versions" /\ last'.raised)
       => /\ Len(packages') = Len(packages)
          /\ \A i \in 1..Len(packages) :
                IF i < last'.fault.at
                THEN /\ packages'[i].version = last'.version
                     /\ ReadVersion(FileAt(disk', packages[i].path).text).value
                          = last'.version
                ELSE /\ packages'[i].version = packages[i].version
                     /\ FileAt(disk', packages[i].path) = FileAt(disk, packages[i].path)]_vars

\* C9: update_all(v) run again after a complete or a failed run of
\* update_all(v) ends as one complete run from the state the first run found;
\* set_version(p, v) a second time changes nothing.
C9_RerunIdempotent ==
    [][/\ (/\ IsCall
           /\ last.op = "update_all_versions"
           /\ last'.op = "update_all_versions"
           /\ last'.version = last.version
           /\ ~last'.raised)
          => \E r \in {update_all_versions(before, last.version, NoFault)} :
                packages' = r.packages /\ disk' = r.disk
       /\ (/\ IsCall
           /\ last.op = "update_version" /\ last.ret
           /\ last'.op = "update_version" /\ last'.ret
           /\ last'.name = last.name
           /\ last'.version = last.version)
          => (packages' = packages /\ disk' = disk)]_vars

SameRecords(before_pkgs, after_pkgs) ==
    /\ Len(after_pkgs) = Len(before_pkgs)
    /\ \A i \in 1..Len(before_pkgs) :
          /\ after_pkgs[i].name = before_pkgs[i].name
          /\ after_pkgs[i].path = before_pkgs[i].path
          /\ after_pkgs[i].dependencies = before_pkgs[i].dependencies

\* C10: no call on the manager adds or removes an entry of the index or
\* changes a record's name, location or dependency list.
C10_IndexIsFixed ==
    [][IsCall => SameRecords(packages, packages')]_vars

\* A call that changed the version of a record with dependencies.
C10_Witness ==
    /\ last.op = "update_version"
    /\ last.ret
    /\ last.name = PkgName(Str_c)
    /\ Len(packages) = 3
    /\ Len(packages[3].dependencies) = 2
    /\ packages[3].version = V020

\* A step that is one run of the command line with the given command.
IsRun(command) == IsCall /\ last'.op = "main" /\ last'.command = command

\* C11: when the version given to the update command fails validation, the
\* run changes no manifest and no package record, with or without --package.
C11_InvalidVersionNoMutation ==
    [][(IsRun("update") /\ ~validate_version(last'.version))
       => /\ disk' = disk
          /\ \A vm \in {discover_packages(disk)} :
                vm.raised = "none" => packages' = vm.packages]_vars

\* update 1.0 --package lumos_b on three packages.
C11_Witness ==
    /\ last.op = "main" /\ last.command = "update"
    /\ last.version = V10
    /\ last.name = PkgName(Str_b)
    /\ last.dispatched
    /\ Len(packages) = 3

\* C12: the update command given a version that fails validation ends with
\* a non-zero exit code.
C12_InvalidVersionExit ==
    (last.op = "main" /\ last.command = "update" /\ ~validate_version(last.version))
    => last.exit # 0

\* C13: the update command naming a package that is not in the index ends
\* with a non-zero exit code.
C13_UnknownPackageExit ==
    (/\ last.op = "main" /\ last.command = "update"
     /\ validate_version(last.version)
     /\ last.name # <<>>
     /\ last.dispatched
     /\ IndexOf(packages, last.name) = 0)
    => last.exit # 0

\* C14: the check command ends with exit code 0 whether it reports the
\* versions consistent or inconsistent; the verdict is its result.
C14_CheckExitsZero ==
    (last.op = "main" /\ last.command = "check" /\ last.dispatched)
    => /\ last.exit = 0
       /\ last.ret = check_version_consistency(packages)

\* check on three packages of which one differs: reported, exit code 0.
C14_Witness ==
    /\ last.op = "main" /\ last.command = "check"
    /\ last.dispatched
    /\ Len(packages) = 3
    /\ ~last.ret.consistent
    /\ last.exit = 0

\* C15: without a root manifest a command builds no index, is not
\* dispatched, changes nothing and ends with a non-zero exit code.
C15_NoRootManifest ==
    [][(IsCall /\ last'.op = "main" /\ last'.command # "none"
        /\ ~FileAt(disk, RootDir).exists)
       => /\ last'.exit # 0
          /\ ~last'.dispatched
          /\ packages' = <<>>
          /\ disk' = disk]_vars

\* update 0.2.0 where the members have manifests and the root has none.
C15_Witness ==
    /\ last.op = "main" /\ last.command = "update"
    /\ last.version = V020
    /\ ~FileAt(disk, RootDir).exists
    /\ FileAt(disk, Str_a).exists
    /\ last.exit = 1

\* C16: whenever the root manifest exists, every command runs to completion:
\* no run ends on an exception, whatever the root manifest and the packages'
\* versions are (I/O failures aside).
C16_OnlyMissingRootAborts ==
    [][(IsCall /\ last'.op = "main" /\ last'.fault = NoFault
        /\ FileAt(disk, RootDir).exists)
       => last'.exit = 0]_vars

\* The members listed by the root manifest of disk d.
ListedMembers(d) ==
    LET content == FileAt(d, RootDir).text
        members_match == SearchMembers(content)
    IN  IF members_match.found
        THEN CleanMembers(PySplit(Group1(content, members_match), ","))
        ELSE <<>>

\* A manifest that is there and declares a name and a version.
Parseable(f) ==
    /\ f.exists
    /\ SearchField(f.text, kw_name).found
    /\ SearchField(f.text, kw_version).found

DeclaredName(f) == Group1(f.text, SearchField(f.text, kw_name))

\* Some listed member of disk d is skipped by discovery.
SomeMemberSkipped(d) ==
    \E k \in 1..Len(ListedMembers(d)) : ~Parseable(FileAt(d, PathJoin(ListedMembers(d)[k])))

\* C17: discovery skips a listed member whose manifest is absent or lacks a
\* name or a version without raising an error, and every other listed member
\* with a parseable manifest is in the index.
C17_UnparseableMembersSkipped ==
    pc = "ready"
    => \A vm \in {discover_packages(disk)} :
          /\ vm.raised = "none"
          /\ \A k \in 1..Len(ListedMembers(disk)) :
                \A f \in {FileAt(disk, PathJoin(ListedMembers(disk)[k]))} :
                   Parseable(f) => /\ DeclaredName(f) \in NameSet(vm.packages)
                                   /\ DeclaredName(f) \in NameSet(packages)

\* A new process on a workspace where the manifest of a was emptied by a failed
\* write: a is skipped, b and c are in the index.
C17_Witness ==
    /\ pc = "ready"
    /\ FileAt(disk, Str_a) = File(<<>>)
    /\ SomeMemberSkipped(disk)
    /\ Names(packages) = <<PkgName(Str_b), PkgName(Str_c)>>

\* sub occurs in text.
Contains(text, sub) ==
    \E i \in 1..(Len(text) - Len(sub) + 1) : SubSeq(text, i, i + Len(sub) - 1) = sub

\* A git query that did not succeed: it raised or returned a non-zero code.
QueryFailed(q) == q.raised \/ q.returncode # 0

\* The one-entry note: the title, the Changes heading and a single list entry
\* that names the version.
IsMinimalNote(text, version) ==
    /\ text = FallbackNotes(version)
    /\ ~Contains(text, NotesChangesSince)
    /\ Cardinality({i \in 1..(Len(text) - 1) : text[i] = "-" /\ text[i + 1] = " "}) = 1

\* C18: notes(version) returns, for every outcome of the two git queries, a
\* text that contains the version; when there is no prior tag or a query
\* fails or raises, the text is the minimal fallback note.
C18_NotesNeverFail ==
    last.op = "generate_release_notes"
    => /\ ~last.raised
       /\ Contains(last.ret, last.version)
       /\ (QueryFailed(last.git[1]) \/ QueryFailed(last.git[2]))
          => IsMinimalNote(last.ret, last.version)

\* git describe names a tag and git log returns a failure code.
C18_Witness ==
    /\ last.op = "generate_release_notes"
    /\ last.git = <<GitResult(0, TagOut), GitResult(128, <<>>)>>
    /\ IsMinimalNote(last.ret, last.version)

\* The index with every version field blanked.
WithoutVersions(pkgs) == [i \in 1..Len(pkgs) |-> [pkgs[i] EXCEPT !.version = <<>>]]

\* C19: order() is a function of the index order and the dependency lists:
\* no call changes what it returns, version updates included, and two calls
\* in a row return the same sequence.
C19_OrderStable ==
    [][IsCall
       => /\ get_dependency_order(packages') = get_dependency_order(packages)
          /\ get_dependency_order(packages') = get_dependency_order(WithoutVersions(packages'))
          /\ (last'.op = "get_dependency_order" /\ pc = "ready")
             => last'.ret = get_dependency_order(packages)
          /\ (last'.op = "get_dependency_order" /\ last.op = "get_dependency_order")
             => last'.ret = last.ret]_vars

\* order() after the root package alone was given another version.
C19_Witness ==
    /\ last.op = "get_dependency_order"
    /\ Len(packages) = 3
    /\ packages[1].name = RootName
    /\ packages[1].version = V020
    /\ packages[3].version = V010
    /\ last.ret = <<RootName, PkgName(Str_b), PkgName(Str_a)>>

\* C20: when check() reports inconsistency, the mismatch list holds the entry
\* "name: version" of every package of the index, in index order.
C20_MismatchListsEveryPackage ==
    (last.op = "check_version_consistency" /\ ~last.ret.consistent)
    => last.ret.inconsistent
         = [i \in 1..Len(packages) |->
              packages[i].name \o <<":", " ">> \o packages[i].version]

\* One package at 0.2.0 among packages at 0.1.0: an entry for each.
C20_Witness ==
    /\ last.op = "check_version_consistency"
    /\ ~last.ret.consistent
    /\ Len(packages) = 3
    /\ packages[1].version = V010 /\ packages[2].version = V020 /\ packages[3].version = V010
    /\ last.ret.inconsistent[1] = packages[1].name \o <<":", " ">> \o V010
    /\ last.ret.inconsistent[2] = packages[2].name \o <<":", " ">> \o V020
    /\ last.ret.inconsistent[3] = packages[3].name \o <<":", " ">> \o V010

\* C21: after a bump command that completes, every package of the index has
\* the version bump(kind, version of the first package), whether or not the
\* packages' versions agreed before.
C21_BumpFromFirstPackage ==
    (/\ last.op = "main" /\ last.command = "bump"
     /\ last.exit = 0
     /\ before.packages # <<>>)
    => /\ Len(packages) = Len(before.packages)
       /\ \A i \in 1..Len(packages) :
             /\ packages[i].version
                  = bump_version(last.kind, before.packages[1].version).value
             /\ ReadVersion(FileAt(disk, packages[i].path).text).value
                  = packages[i].version

\* bump major where the third package was at 0.2.0 and the first at 0.1.0.
C21_Witness ==
    /\ last.op = "main" /\ last.command = "bump" /\ last.kind = "major"
    /\ last.exit = 0
    /\ Len(before.packages) = 3
    /\ before.packages[1].version = V010
    /\ before.packages[3].version = V020
    /\ \A i \in 1..3 : packages[i].version = <<"1", ".", "0", ".", "0">>

\* C22: order() returns every name of the index exactly once and no other
\* name, whatever the dependency lists hold: names that are not in the index,
\* repeated entries, the package itself, cycles.
C22_OrderIsPermutation ==
    last.op = "get_dependency_order"
    => /\ Len(last.ret) = Len(packages)
       /\ \A n \in NameSet(packages) :
             Cardinality({i \in 1..Len(last.ret) : last.ret[i] = n}) = 1
       /\ \A i \in 1..Len(last.ret) : last.ret[i] \in NameSet(packages)

\* a lists itself and b, b lists a twice, c lists an absent name twice.
C22_Witness ==
    /\ last.op = "get_dependency_order"
    /\ Len(packages) = 3
    /\ packages[1].dependencies = <<PkgName(Str_a), PkgName(Str_b)>>
    /\ packages[2].dependencies = <<PkgName(Str_a), PkgName(Str_a)>>
    /\ packages[3].dependencies = <<AbsentName, AbsentName>>
    /\ last.ret = <<PkgName(Str_b), PkgName(Str_a), PkgName(Str_c)>>

\* C23: for every version string that validation accepts and every kind,
\* bump succeeds, and its result is accepted by validation and has no
\* pre-release suffix.
C23_BumpOfValidIsValid ==
    (last.op = "bump_version" /\ validate_version(last.version))
    => /\ ~last.raised
       /\ validate_version(last.ret)
       /\ \A i \in 1..Len(last.ret) : last.ret[i] # "-"

\* bump("1.0.0-beta.1", "major") == "2.0.0"
C23_Witness ==
    /\ last.op = "bump_version"
    /\ last.kind = "major"
    /\ last.version = <<"1", ".", "0", ".", "0", "-", "b", "e", "t", "a", ".", "1">>
    /\ validate_version(last.version)
    /\ last.ret = <<"2", ".", "0", ".", "0">>

\* C24: order() terminates on every index, cyclic or not, and returns the
\* order without raising an error: a cycle is not reported.
C24_OrderTerminates ==
    <>(/\ pc = "returned"
       /\ ~last.raised
       /\ last.ret = get_dependency_order(packages))

\* Returned on an index where a lists itself and b, b lists c and c lists a.
C24_Witness ==
    /\ pc = "returned"
    /\ packages[1].dependencies = <<PkgName(Str_a), PkgName(Str_b)>>
    /\ packages[2].dependencies = <<PkgName(Str_c)>>
    /\ packages[3].dependencies = <<PkgName(Str_a)>>
    /\ last.ret = <<PkgName(Str_c), PkgName(Str_b), PkgName(Str_a)>>

\* The edges P -> D of the index (D in the index, D different from P) that
\* the order violates: D stands after P.
ViolatedEdges(pkgs, order) ==
    {e \in NameSet(pkgs) \X NameSet(pkgs) :
        /\ e[2] \in DepsOf(pkgs, e[1])
        /\ e[2] # e[1]
        /\ Before(order, e[1], e[2])}

\* The pairs <<A, B>> of different packages that depend on each other, A
\* before B in the index.
TwoCycles(pkgs) ==
    {e \in NameSet(pkgs) \X NameSet(pkgs) :
        /\ IndexOf(pkgs, e[1]) < IndexOf(pkgs, e[2])
        /\ e[2] \in DepsOf(pkgs, e[1])
        /\ e[1] \in DepsOf(pkgs, e[2])}

\* A violated edge P -> D was met while D was visited and not yet appended,
\* and it closes a cycle: P is reached from D.
ViolatedOnlyClosing ==
    \A e \in ViolatedEdges(packages, last.ret) :
        /\ e \in last.traversal.closing
        /\ ReachableIn(packages, e[2], e[1], Len(packages))

\* Some package earlier in the index than A reaches A or B.
ReachedFromEarlier(pkgs, A, B) ==
    \E k \in 1..(IndexOf(pkgs, A) - 1) :
        \/ ReachableIn(pkgs, pkgs[k].name, A, Len(pkgs))
        \/ ReachableIn(pkgs, pkgs[k].name, B, Len(pkgs))

\* C25 as stated: a violated edge only closes a cycle, and of a two-package
\* cycle A <-> B the package that comes first in index order is placed after
\* the other.
C25_FirstInIndexPlacedLast ==
    pc = "returned"
    => /\ ViolatedOnlyClosing
       /\ \A e \in TwoCycles(packages) : Before(last.ret, e[2], e[1])

\* C25, amended: a violated edge only closes a cycle; of a two-package cycle
\* A <-> B exactly one direction is violated, the package visited first being
\* placed after the other, and that package is the first in index order when
\* no package earlier in the index reaches the two.
C25_FirstVisitedPlacedLast ==
    pc = "returned"
    => /\ ViolatedOnlyClosing
       /\ \A e \in TwoCycles(packages) :
             /\ Before(last.ret, e[1], e[2]) # Before(last.ret, e[2], e[1])
             /\ Before(last.traversal.entered, e[1], e[2]) <=> Before(last.ret, e[2], e[1])
             /\ ~ReachedFromEarlier(packages, e[1], e[2]) => Before(last.ret, e[2], e[1])

\* a and b list c, c lists b: the cycle of b and c is entered through c, and b
\* comes out before c although b is the first of the two in the index.
C25_Witness ==
    /\ pc = "returned"
    /\ packages[1].dependencies = <<PkgName(Str_c)>>
    /\ packages[2].dependencies = <<PkgName(Str_c)>>
    /\ packages[3].dependencies = <<PkgName(Str_b)>>
    /\ last.traversal.entered = <<PkgName(Str_a), PkgName(Str_c), PkgName(Str_b)>>
    /\ last.ret = <<PkgName(Str_b), PkgName(Str_c), PkgName(Str_a)>>
    /\ ViolatedEdges(packages, last.ret) = {<<PkgName(Str_b), PkgName(Str_c)>>}

\* C26: on an index with no package (the root manifest declares no name and
\* version of its own and no member is parseable) check() returns false
\* together with an empty mismatch list.
C26_EmptyIndexInconsistent ==
    (last.op = "check_version_consistency" /\ Len(packages) = 0)
    => /\ last.ret.consistent = FALSE
       /\ last.ret.inconsistent = <<>>

\* check() on the workspace whose only member declares a name and no version.
C26_Witness ==
    /\ last.op = "check_version_consistency"
    /\ packages = <<>>
    /\ discover_packages(disk).packages = <<>>
    /\ ~ReadVersion(disk[RootDir].text).found
    /\ ~last.ret.consistent
    /\ Len(last.ret.inconsistent) = 0

\* The names that the declarations give with a path.
PathDeclared(decls) ==
    {decls[k].name : k \in {j \in 1..Len(decls) : decls[j].kind # "registry"}}

\* C27: discovery records as a dependency of a package every dependency that
\* its manifest declares with a path, whatever its name, and none that is
\* declared without a path.
C27_PathDependenciesRecorded ==
    pc = "ready"
    => \A decls \in DeclLists :
          disk = DeclWorkspace(decls)
          => /\ Len(packages) = 1
             /\ {packages[1].dependencies[k] : k \in 1..Len(packages[1].dependencies)}
                = PathDeclared(decls)

\* The values of all the version fields of a text, in the order of the text.
RECURSIVE VersionFields(_, _)
VersionFields(s, i) ==
    IF i > Len(s) THEN <<>>
    ELSE IF FieldAt(s, i, kw_version).found
    THEN <<Group1(s, FieldAt(s, i, kw_version))>>
         \o VersionFields(s, FieldAt(s, i, kw_version).stop)
    ELSE VersionFields(s, i + 1)

\* C28: set_version(p, v) leaves the record and the manifest of every package
\* other than p as they were, and a call that succeeds replaces the value of
\* the first version field of p's manifest and of no later version field.
C28_OnlyFirstFieldOfP ==
    (last.op = "update_version" /\ (pc = "exited" \/ ~last.raised))
    => /\ Len(packages) = Len(before.packages)
       /\ \A i \in 1..Len(before.packages) :
             before.packages[i].name # last.name
             => /\ packages[i] = before.packages[i]
                /\ FileAt(disk, packages[i].path) = FileAt(before.disk, packages[i].path)
       /\ last.ret
          => \A path \in {PathOf(before.packages, last.name)} :
                \A old \in {VersionFields(FileAt(before.disk, path).text, 1)} :
                   /\ Len(old) > 0
                   /\ VersionFields(FileAt(disk, path).text, 1)
                        = <<last.version>> \o Tail(old)

\* set_version(c, 0.2.0) in the scenario: c's manifest holds its own version
\* and the version of its dependency b, which stays 0.1.0.
C28_Witness ==
    /\ last.op = "update_version"
    /\ last.ret
    /\ last.name = PkgName(Str_c)
    /\ last.version = V020
    /\ VersionFields(FileAt(before.disk, Str_c).text, 1) = <<V010, V010>>
    /\ VersionFields(FileAt(disk, Str_c).text, 1) = <<V020, V010>>
    /\ FileAt(disk, Str_a) = FileAt(before.disk, Str_a)
    /\ FileAt(disk, Str_b) = FileAt(before.disk, Str_b)

\* The operations that only read: show(), check(), order(), version
\* validation, bump arithmetic and notes().
ReadOnlyOps ==
    {"get_current_versions", "check_version_consistency", "get_dependency_order",
     "validate_version", "bump_version", "generate_release_notes"}

\* C29: a call of show(), check(), order(), version validation, bump
\* arithmetic or notes() leaves every package record and every manifest as it
\* was before the call.
C29_ReadOnlyOperations ==
    [][(IsCall /\ last'.op \in ReadOnlyOps)
       => (packages' = packages /\ disk' = disk)]_vars

\* order() on the scenario after update_all(0.2.0): the index is still in the
\* order a, b, c, which is not the order returned.
C29_Witness ==
    /\ last.op = "get_dependency_order"
    /\ last.ret = <<PkgName(Str_b), PkgName(Str_a), PkgName(Str_c)>>
    /\ Names(packages) = <<PkgName(Str_a), PkgName(Str_b), PkgName(Str_c)>>
    /\ \A i \in 1..3 : packages[i].version = V020
    /\ \A i \in 1..3 : ReadVersion(FileAt(disk, packages[i].path).text).value = V020

\* C30: after any sequence of set_version and update_all calls with valid
\* versions, interrupted calls included, the version of every package record
\* is the version that its manifest declares, and a fresh discovery of the
\* workspace gives the name-to-version mapping of the index.
C30_MemoryMatchesManifests ==
    /\ \A i \in 1..Len(packages) :
          ReadVersion(FileAt(disk, packages[i].path).text)
            = [found |-> TRUE, value |-> packages[i].version]
    /\ get_current_versions(discover_packages(disk).packages)
         = get_current_versions(packages)

====
